---- MODULE Spec2Model ----
(***************************************************************************)
(* Verification model of the ECGV analysis core:                           *)
(*   - DataHandler (src/modules/data_handler.py): the annotation store     *)
(*     and get_heartbeats, the heartbeat segmenter;                        *)
(*   - get_anomalies_from_rri, get_pulse_metrics, peak_correction,         *)
(*     get_peaks, the smoothing kernels, frequency_filtering_fft and       *)
(*     frequency_filtering_butterworth of src/analysis/ecg_toolbox.py;     *)
(*   - the mouse handlers of GraphHandler (src/modules/graph_handler.py);  *)
(*   - annotate and display_rri_and_hr_graph of IntervalScreen             *)
(*     (src/screens/interval_viewer_screen.py).                            *)
(*                                                                         *)
(* Conventions.  A pandas/numpy float is modelled as an optional integer:  *)
(* <<v>> is the number v and <<>> is NaN (see Num, NaN).  Python's None    *)
(* for plot_data is the empty tuple as well (<<>> = None, <<df>> = a       *)
(* loaded frame).  A DataFrame selection is modelled by its index, the     *)
(* ascending sequence of row labels it holds.  Arithmetic is exact: the    *)
(* rounding of floating-point operations is not modelled.                  *)
(***************************************************************************)
EXTENDS Integers, Sequences, FiniteSets, TLC

VARIABLES
    \* ---- DataHandler (annotation store) ----
    plot_data,          \* <<>> (None) or <<[nrows, cols]>>: cols[l] = rows whose 'Label: l' cell is 1
    label_list,         \* declared labels (only membership is ever read)
    selected_label,     \* '' or the label selected last
    \* ---- DataHandler.get_heartbeats, one call ----
    hb_pc,              \* "idle" | "loop" (the while of line 342) | "done" (returned)
    heartbeats,         \* index of the heartbeats frame (line 321)
    breaks,             \* marker rows (line 335)
    step,               \* line 339
    last_break,         \* line 340
    heartbeat_segments, \* line 336; the returned list once hb_pc = "done"
    \* ---- DataHandler.toggle_selected_label, one call ----
    toggle_call,        \* <<>> (no call) or <<the call's outcome>>: raised, or the cell and the value returned
    \* ---- get_anomalies_from_rri, one call ----
    an_pc,              \* "off" | "call" | "done"
    rri,                \* [kind, values, index]: a Series with its index, or a list
    indices,            \* the argument `indices`: <<>> (None) or <<labels>>
    kwargs,             \* the thresholds the caller overrides, in hundredths
    an_ret,             \* [raised, value]: the returned index labels
    \* ---- get_pulse_metrics, one call ----
    pm_pc,              \* "off" | "call" | "done"
    timestamps,         \* [kind, values, index]: a Series with its index, or an ndarray (seconds)
    pm_indices,         \* the argument `indices`: <<>> (None) or <<labels>>
    pm_ret,             \* [raised, value]: the returned table
    \* ---- peak_correction, one call ----
    pk_pc,              \* "off" | "loop" (the for of line 211) | "done" | "raised"
    seeds,              \* the seeds: <<v>> is the int v, <<v, 5>> the float v + 0.5
    raw_signal,         \* the record, a Series over 0..N-1
    window,             \* the half-width
    num,                \* seeds consumed so far (enumerate, line 211)
    new_peaks,          \* line 210; the returned list once pk_pc = "done"
    \* ---- symmetric_gaussian_/symmetric_exponential_moving_average, one call ----
    sm_pc,              \* "off" | "call" | "done"
    sm_kernel,          \* "gaussian" | "exponential": the function called
    sm_y,               \* the argument y: the signal to smooth
    sm_L,               \* the argument L: the size of the averaging window
    sm_ret,             \* [raised, value]: the returned average
    \* ---- frequency_filtering_fft, one call ----
    ff_pc,              \* "off" | "call" | "done"
    ff_y,               \* the argument y: the signal
    ff_t,               \* the argument t: <<>> (None) or <<timestamps>>
    ff_upper,           \* the argument upper: <<>> (None) or <<frequency>>
    ff_lower,           \* the argument lower: <<>> (None) or <<frequency>>
    reconstruction_mode,
    ff_ret,             \* [raised, value]: the error raised or the filtered signal
    \* ---- frequency_filtering_butterworth, one call ----
    bw_pc,              \* "off" | "design" (lines 95-102) | "filter" (line 103) | "done" | "raised"
    bw_y,               \* the argument y: the signal
    bw_fs,              \* the argument fs, in Hz
    bw_order,           \* the argument order
    btype,              \* the argument btype
    bw_upper,           \* the argument upper: <<>> (None) or <<Hz>>
    bw_lower,           \* the argument lower: <<>> (None) or <<Hz>>
    bw_filter,          \* line 95-100: <<>> (not designed) or <<the designed filter>>
    bw_ret,             \* [raised, value]: the error raised or the filtered signal
    \* ---- get_peaks, one call ----
    gp_pc,              \* "off" | "call" | "done"
    gp_y,               \* the argument y: the signal
    gp_quant,           \* the argument quant, a fraction <<numerator, denominator>>
    gp_output,          \* the argument output
    gp_ret,             \* [raised, value]: the error raised or what the call returned
    \* ---- GraphHandler (src/modules/graph_handler.py), mouse handling ----
    click_event,        \* self.click_event: <<>> (None) or <<the press event>>
    dragging,           \* the module global of line 40
    gh_handler,         \* the handler the canvas dispatched last ("" before the first event)
    gh_invoked,         \* the injected actions and view methods that handler invoked
    \* history of the events, kept for the properties only
    pending_press,      \* the last press since the last release or axis-leave, <<>> if none
    moved,              \* a motion with data coordinates other than that press's came since
    \* ---- IntervalScreen.display_rri_and_hr_graph (src/screens/interval_viewer_screen.py) ----
    iv_pc,              \* "off" | "done" (returned)
    pulse_metrics       \* <<>> (not built) or <<the table of line 382>>

hbVars == <<plot_data, label_list, selected_label, hb_pc, heartbeats, breaks,
            step, last_break, heartbeat_segments, toggle_call>>

anVars == <<an_pc, rri, indices, kwargs, an_ret>>

pmVars == <<pm_pc, timestamps, pm_indices, pm_ret>>

pkVars == <<pk_pc, seeds, raw_signal, window, num, new_peaks>>

smVars == <<sm_pc, sm_kernel, sm_y, sm_L, sm_ret>>

\* the calls of the filter toolbox
ffVars == <<ff_pc, ff_y, ff_t, ff_upper, ff_lower, reconstruction_mode, ff_ret>>

bwVars == <<bw_pc, bw_y, bw_fs, bw_order, btype, bw_upper, bw_lower, bw_filter, bw_ret>>

gpVars == <<gp_pc, gp_y, gp_quant, gp_output, gp_ret>>

flVars == <<smVars, ffVars, bwVars, gpVars>>

ghVars == <<click_event, dragging, gh_handler, gh_invoked, pending_press, moved>>

\* the presentation layer
ivVars == <<iv_pc, pulse_metrics>>

uiVars == <<ghVars, ivVars>>

vars == <<hbVars, anVars, pmVars, pkVars, flVars, uiVars>>

\* ------------------------------------------------------------------ bounds
MaxRows == 4        \* rows of the loaded table
MaxStep == 6        \* largest value of the unbounded Python int `step` kept apart
MaxRri == 7         \* longest interval series
MaxT == 6           \* latest beat timestamp, in seconds
MaxN == 4           \* longest raw signal
MaxWindow == 3      \* widest half-window of peak_correction
MaxSeeds == 2       \* longest seed list
MaxY == 4           \* longest signal handed to a smoothing kernel
MaxL == 6           \* largest averaging window asked for
MaxFN == 3          \* longest signal handed to the FFT filter
MaxFT == 2          \* latest timestamp of its time axis, in seconds
MaxBN == 10         \* longest signal handed to the Butterworth filter
MaxOrder == 2       \* highest filter order asked for
MaxCoord == 1       \* largest data coordinate of a mouse event
MaxPN == 5          \* longest signal searched for peaks
MaxPY == 2          \* largest sample of such a signal

\* ------------------------------------------------------------------ helpers
Min(a, b) == IF a < b THEN a ELSE b
Max(a, b) == IF a > b THEN a ELSE b
Abs(a) == IF a < 0 THEN -a ELSE a

SetMin(S) == CHOOSE x \in S : \A y \in S : x <= y

RECURSIVE SortedSeq(_)
\* the ascending sequence of a finite set of integers
SortedSeq(S) == IF S = {} THEN <<>>
                ELSE LET m == SetMin(S) IN <<m>> \o SortedSeq(S \ {m})

Range(s) == {s[i] : i \in 1..Len(s)}
Last(s) == s[Len(s)]

RECURSIVE Concat(_)
\* the concatenation of a sequence of sequences
Concat(ss) == IF ss = <<>> THEN <<>> ELSE ss[1] \o Concat(Tail(ss))

\* ------------------------------------------------------------------ DataHandler
\* default_annotations.json: the keys of 'heartbeat_classes' and of
\* 'segment_denominators'; "other" stands for any user-declared label.
DEFAULT_HEARTBEAT_CLASSES == {"N"}
SEGMENT_DENOMINATORS == {"~"}
Labels == DEFAULT_HEARTBEAT_CLASSES \cup SEGMENT_DENOMINATORS \cup {"other"}

Rows(df) == 0..(df.nrows - 1)

\* get_label_data(label): the rows where any of the label columns equals 1,
\* in index order (plot_data.loc[self[label].eq(1).any(axis=1)]).
get_label_data(df, label) ==
    SortedSeq({r \in Rows(df) : \E l \in label : r \in df.cols[l]})

\* a slice that leaves its upper end out, as a positional slice would
LocSliceExclusive(idx, lo, hi) ==
    LET In(x) == lo <= x /\ x < hi IN SelectSeq(idx, In)

\* heartbeats.loc[lo:hi]: label slice of a monotonic index, both ends included
LocSlice(idx, lo, hi) ==
    LET In(x) == lo <= x /\ x <= hi IN SelectSeq(idx, In)

\* heartbeats.loc[lo:]
LocFrom(idx, lo) ==
    LET In(x) == lo <= x IN SelectSeq(idx, In)

\* heartbeats.loc[heartbeats['Index'] > bound]
Remainder(idx, bound) ==
    LET In(x) == x > bound IN SelectSeq(idx, In)

\* the segment the while loop looks at in this iteration (lines 343-346)
Segment ==
    IF step >= Len(breaks) THEN LocFrom(heartbeats, last_break)
    ELSE LocSlice(heartbeats, last_break, breaks[step + 1])

\* no call of the store is in progress
HBIdle == /\ hb_pc = "idle"
          /\ toggle_call = <<>>

\* open_file: read_csv of a table without label columns, then get_label_list
open_file ==
    /\ UNCHANGED <<anVars, pmVars, pkVars, flVars, uiVars>>
    /\ UNCHANGED toggle_call
    /\ HBIdle
    /\ plot_data = <<>>
    /\ plot_data' = << [nrows |-> MaxRows, cols |-> [l \in {} |-> {}]] >>
    /\ label_list' = {}
    /\ selected_label' = ""
    /\ UNCHANGED <<hb_pc, heartbeats, breaks, step, last_break, heartbeat_segments>>

\* declare_label(label_name), lines 475-487
declare_label(label_name) ==
    /\ UNCHANGED <<anVars, pmVars, pkVars, flVars, uiVars>>
    /\ UNCHANGED toggle_call
    /\ HBIdle
    /\ plot_data # <<>>
    /\ label_name \notin DOMAIN plot_data[1].cols
    /\ selected_label' = label_name
    /\ plot_data' = << [plot_data[1] EXCEPT
                          !.cols = [l \in (DOMAIN @) \cup {label_name} |->
                                      IF l = label_name THEN {} ELSE @[l]]] >>
    /\ label_list' = label_list \cup {label_name}
    /\ UNCHANGED <<hb_pc, heartbeats, breaks, step, last_break, heartbeat_segments>>

\* the argument `label` of toggle_selected_label: <<>> (None) or <<name>>
LabelArguments == {<<>>} \cup {<<l>> : l \in Labels}

\* the rows asked for: every row of the table, and one before and one past it
IndexArguments == (-1)..MaxRows

\* lines 497-498: the label the call works on
ToggledLabel(label) == IF label = <<>> THEN selected_label ELSE label[1]

\* the frame with the cell (index, 'Label: name') set to 1 (line 507) or to None (line 504)
SetCell(df, index, name, one) ==
    [df EXCEPT !.cols[name] = IF one THEN @ \cup {index} ELSE @ \ {index}]

\* the outcome of a call that raised (the error names neither the label nor, for the
\* caller, the cell), and of one that returned `value`
ToggleRaised == [raised |-> TRUE]
ToggleReturned(index, name, value) ==
    [index |-> index, label |-> name, raised |-> FALSE, value |-> value]

\* the body with line 503 assigning 1 as line 506 does: a cell, once set, stays set
toggled_never_clears(store, name, index) ==
    IF store = <<>> THEN [plot_data |-> store, call |-> ToggleRaised]
    ELSE IF name \notin DOMAIN store[1].cols
    THEN [plot_data |-> store, call |-> ToggleRaised]
    ELSE IF index \notin Rows(store[1])
    THEN [plot_data |-> store, call |-> ToggleRaised]
    ELSE IF index \in store[1].cols[name]
    THEN [plot_data |-> << SetCell(store[1], index, name, TRUE) >>,
          call |-> ToggleReturned(index, name, TRUE)]
    ELSE [plot_data |-> << SetCell(store[1], index, name, TRUE) >>,
          call |-> ToggleReturned(index, name, FALSE)]

\* lines 499-508 on the table `store` for the label `name`: the table the call leaves
\* and its outcome.  Without a table get_columns raises AttributeError (line 126); an
\* undeclared label raises KeyError (line 501); a row that is not in the index raises
\* KeyError at the read of line 503.
toggled(store, name, index) ==
    IF store = <<>> THEN [plot_data |-> store, call |-> ToggleRaised]
    ELSE IF name \notin DOMAIN store[1].cols
    THEN [plot_data |-> store, call |-> ToggleRaised]
    ELSE IF index \notin Rows(store[1])
    THEN [plot_data |-> store, call |-> ToggleRaised]
    ELSE IF index \in store[1].cols[name]
    THEN [plot_data |-> << SetCell(store[1], index, name, FALSE) >>,
          call |-> ToggleReturned(index, name, TRUE)]
    ELSE [plot_data |-> << SetCell(store[1], index, name, TRUE) >>,
          call |-> ToggleReturned(index, name, FALSE)]

\* toggle_selected_label(index, label), lines 490-508
toggle_selected_label(index, label) ==
    /\ UNCHANGED <<anVars, pmVars, pkVars, flVars, uiVars>>
    /\ HBIdle
    /\ LET out == toggled(plot_data, ToggledLabel(label), index)
       IN /\ plot_data' = out.plot_data
          /\ toggle_call' = << out.call >>
    /\ UNCHANGED <<label_list, selected_label, hb_pc, heartbeats, breaks, step,
                   last_break, heartbeat_segments>>

\* the caller takes the returned boolean, or catches the error
toggle_return ==
    /\ UNCHANGED <<anVars, pmVars, pkVars, flVars, uiVars>>
    /\ hb_pc = "idle"
    /\ toggle_call # <<>>
    /\ toggle_call' = <<>>
    /\ UNCHANGED <<plot_data, label_list, selected_label, hb_pc, heartbeats, breaks, step,
                   last_break, heartbeat_segments>>

\* IntervalScreen.annotate (interval_viewer_screen.py, lines 603-625) and its twin of the
\* annotation screen: the click is resolved to a row of the table, the label is
\* toggled there, a KeyError is caught and the returned boolean is dropped
annotate(click_index, label) ==
    /\ UNCHANGED <<anVars, pmVars, pkVars, flVars, uiVars>>
    /\ UNCHANGED toggle_call
    /\ HBIdle
    /\ plot_data # <<>>
    /\ plot_data' = toggled(plot_data, label, click_index).plot_data
    /\ UNCHANGED <<label_list, selected_label, hb_pc, heartbeats, breaks, step,
                   last_break, heartbeat_segments>>

\* the call with get_label_data handing out the stored frame itself (no .copy()
\* in line 194), so that the 'Index' column of lines 197 and 322 lands in the store
get_heartbeats_call_no_copy ==
    /\ UNCHANGED <<anVars, pmVars, pkVars, flVars, uiVars>>
    /\ UNCHANGED toggle_call
    /\ HBIdle
    /\ IF plot_data = <<>> \/ label_list = {}
       THEN /\ heartbeat_segments' = <<>>
            /\ hb_pc' = "done"
            /\ UNCHANGED <<heartbeats, breaks, plot_data>>
       ELSE LET df == plot_data[1]
                present_labels == DEFAULT_HEARTBEAT_CLASSES \cap label_list
                included_markers == SEGMENT_DENOMINATORS \cap label_list
                hb == get_label_data(df, present_labels)
            IN /\ heartbeats' = hb
               /\ plot_data' = << [df EXCEPT
                                     !.cols = [l \in (DOMAIN @) \cup {"Index"} |->
                                                 IF l = "Index" THEN Range(hb) ELSE @[l]]] >>
               /\ IF included_markers = {}
                  THEN /\ heartbeat_segments' = << hb >>
                       /\ hb_pc' = "done"
                       /\ breaks' = <<>>
                  ELSE /\ breaks' = get_label_data(df, included_markers)
                       /\ heartbeat_segments' = <<>>
                       /\ hb_pc' = "loop"
    /\ step' = 0
    /\ last_break' = 0
    /\ UNCHANGED <<label_list, selected_label>>

\* get_heartbeats, lines 315-340: up to the first test of the while
get_heartbeats_call ==
    /\ UNCHANGED <<anVars, pmVars, pkVars, flVars, uiVars>>
    /\ UNCHANGED toggle_call
    /\ HBIdle
    /\ IF plot_data = <<>> \/ label_list = {}
       THEN /\ heartbeat_segments' = <<>>
            /\ hb_pc' = "done"
            /\ UNCHANGED <<heartbeats, breaks>>
       ELSE LET df == plot_data[1]
                present_labels == DEFAULT_HEARTBEAT_CLASSES \cap label_list
                included_markers == SEGMENT_DENOMINATORS \cap label_list
                hb == get_label_data(df, present_labels)
            IN /\ heartbeats' = hb
               /\ IF included_markers = {}
                  THEN /\ heartbeat_segments' = << hb >>
                       /\ hb_pc' = "done"
                       /\ breaks' = <<>>
                  ELSE /\ breaks' = get_label_data(df, included_markers)
                       /\ heartbeat_segments' = <<>>
                       /\ hb_pc' = "loop"
    /\ step' = 0
    /\ last_break' = 0
    /\ UNCHANGED <<plot_data, label_list, selected_label>>

\* one iteration of the while with an empty segment: step += 1; continue.
\* step is only ever compared with len(breaks): the values above MaxStep are
\* folded back to len(breaks), so the loop keeps running as it does in the code.
get_heartbeats_skip ==
    /\ UNCHANGED <<anVars, pmVars, pkVars, flVars, uiVars>>
    /\ UNCHANGED toggle_call
    /\ hb_pc = "loop"
    /\ Segment = <<>>
    /\ step' = IF step < MaxStep THEN step + 1 ELSE Len(breaks)
    /\ UNCHANGED <<plot_data, label_list, selected_label, hb_pc, heartbeats,
                   breaks, last_break, heartbeat_segments>>

\* one iteration of the while that appends a segment (lines 350-357)
get_heartbeats_append ==
    /\ UNCHANGED <<anVars, pmVars, pkVars, flVars, uiVars>>
    /\ UNCHANGED toggle_call
    /\ hb_pc = "loop"
    /\ Segment # <<>>
    /\ LET segment == Segment
           lb == Last(segment) + 1
           remainder == Remainder(heartbeats, lb)
       IN /\ heartbeat_segments' = Append(heartbeat_segments, segment)
          /\ IF remainder = <<>>
             THEN /\ hb_pc' = "done"
                  /\ last_break' = lb
             ELSE /\ hb_pc' = "loop"
                  /\ last_break' = remainder[1]
    /\ step' = step + 1
    /\ UNCHANGED <<plot_data, label_list, selected_label, heartbeats, breaks>>

\* the caller takes the returned list; the call's locals go away
get_heartbeats_return ==
    /\ UNCHANGED <<anVars, pmVars, pkVars, flVars, uiVars>>
    /\ UNCHANGED toggle_call
    /\ hb_pc = "done"
    /\ hb_pc' = "idle"
    /\ heartbeats' = <<>>
    /\ breaks' = <<>>
    /\ step' = 0
    /\ last_break' = 0
    /\ heartbeat_segments' = <<>>
    /\ UNCHANGED <<plot_data, label_list, selected_label>>

\* the store as the other specifications leave it: nothing loaded, no call
HBOff ==
    /\ plot_data = <<>>
    /\ label_list = {}
    /\ selected_label = ""
    /\ hb_pc = "idle"
    /\ heartbeats = <<>>
    /\ breaks = <<>>
    /\ step = 0
    /\ last_break = 0
    /\ heartbeat_segments = <<>>
    /\ toggle_call = <<>>


\* ------------------------------------------------------------------ floats
\* a float is <<v>> (the number v) or <<>> (NaN)
NaN == <<>>
Num(v) == <<v>>
IsNaN(x) == x = <<>>
FSub(x, y) == IF IsNaN(x) \/ IsNaN(y) THEN NaN ELSE Num(x[1] - y[1])

RECURSIVE SumSeq(_)
SumSeq(s) == IF s = <<>> THEN 0 ELSE s[1] + SumSeq(Tail(s))

Raised == [raised |-> TRUE, value |-> <<>>]
Returned(v) == [raised |-> FALSE, value |-> v]

\* ------------------------------------------------------------------ smoothing kernel
\* scipy.signal.windows.exponential(M, tau=tau, sym=True), w[n] = exp(-|n - (M-1)/2| / tau),
\* in units of 1/10000.  The table holds the window the anomaly detector asks for
\* (L = 6 made odd, tau = 4); of any other window only the length M is modelled.
exponential_window(M, tau) ==
    IF M = 7 /\ tau = 4 THEN <<4724, 6065, 7788, 10000, 7788, 6065, 4724>>
    ELSE [n \in 1..M |-> 10000]

\* scipy.signal.windows.gaussian(M, std=std, sym=True), w[n] = exp(-(n - (M-1)/2)^2 / (2 std^2)),
\* in units of 1/10000: the weights for std = 1 up to the distance 3 from the centre;
\* of any other window only the length M is modelled.
gaussian_window(M, std) ==
    IF std = 1 /\ M % 2 = 1 /\ M <= 7
    THEN [n \in 1..M |-> <<10000, 6065, 1353, 111>>[Abs(n - (M + 1) \div 2) + 1]]
    ELSE [n \in 1..M |-> 10000]

RECURSIVE ConvTerm(_, _, _, _)
\* sum of a[j] * v[k - j] for j from j0 up, over the overlap of the two arrays (0-based j, k)
ConvTerm(a, v, k, j) ==
    IF j > Min(k, Len(a) - 1) THEN 0
    ELSE a[j + 1][1] * v[k - j + 1] + ConvTerm(a, v, k, j + 1)

\* entry k (0-based) of the full convolution of the float array a with the weights v
ConvFull(a, v, k) ==
    LET j0 == Max(0, k - (Len(v) - 1))
        j1 == Min(k, Len(a) - 1)
    IN IF \E j \in j0..j1 : IsNaN(a[j + 1]) THEN NaN ELSE Num(ConvTerm(a, v, k, j0))

\* numpy.convolve(a, v, 'same') for non-empty a and v: max(len(a), len(v)) entries,
\* centred on the full convolution
np_convolve_same(a, v) ==
    LET n2 == Min(Len(a), Len(v))
        left == (n2 - 1) - (n2 \div 2)
    IN [i \in 1..Max(Len(a), Len(v)) |-> ConvFull(a, v, (i - 1) + left)]

\* symmetric_exponential_moving_average(y, L, tau), lines 260-272, as the pair
\* (numerators, common denominator sum(window))
symmetric_exponential_moving_average(y, L, tau) ==
    LET M == IF L % 2 = 0 THEN L + 1 ELSE L
        win == exponential_window(M, tau)
    IN [num |-> np_convolve_same(y, win), den |-> SumSeq(win)]

\* symmetric_gaussian_moving_average(y, L, std), lines 244-256, as the pair
\* (numerators, common denominator window.sum())
symmetric_gaussian_moving_average(y, L, std) ==
    LET M == IF L % 2 = 0 THEN L + 1 ELSE L
        win == gaussian_window(M, std)
    IN [num |-> np_convolve_same(y, win), den |-> SumSeq(win)]

\* the signals and window sizes the kernels are called with
Signals == UNION {[1..n -> {Num(0), Num(1)}] : n \in 0..MaxY}

SMOff ==
    /\ sm_pc = "off"
    /\ sm_kernel = "exponential"
    /\ sm_y = <<>>
    /\ sm_L = 1
    /\ sm_ret = Returned(<<>>)

\* one call of a kernel: numpy.convolve raises ValueError on an empty signal
\* (lines 256, 272), otherwise the average is returned
smoothing_call ==
    /\ sm_pc = "call"
    /\ sm_ret' = IF sm_y = <<>> THEN Raised
                 ELSE IF sm_kernel = "gaussian"
                      THEN Returned(symmetric_gaussian_moving_average(sm_y, sm_L, 1))
                      ELSE Returned(symmetric_exponential_moving_average(sm_y, sm_L, 4))
    /\ sm_pc' = "done"
    /\ UNCHANGED <<sm_kernel, sm_y, sm_L>>
    /\ UNCHANGED <<hbVars, anVars, pmVars, pkVars, ffVars, bwVars, gpVars, uiVars>>

\* ------------------------------------------------------------------ get_anomalies_from_rri
DefaultDropThreshold == -15     \* -0.15
DefaultRiseThreshold == 25      \*  0.25

\* rri - symmetric_exponential_moving_average(rri, L=6, tau=4), times the
\* denominator of the average (line 314; the fillna of line 313 is not assigned)
rri_f(values) ==
    LET sema == symmetric_exponential_moving_average(values, 6, 4)
    IN [i \in 1..Len(values) |->
          IF IsNaN(values[i]) \/ IsNaN(sema.num[i]) THEN NaN
          ELSE Num(sema.den * values[i][1] - sema.num[i][1])]

\* rri_f.diff().fillna(0), line 315
rri_f_d(values) ==
    LET f == rri_f(values)
    IN [i \in 1..Len(values) |->
          IF i = 1 \/ IsNaN(f[i]) \/ IsNaN(f[i - 1]) THEN 0 ELSE f[i][1] - f[i - 1][1]]

\* rri_f_d.abs().max()
AbsMax(d) == CHOOSE m \in {Abs(d[i]) : i \in 1..Len(d)} : \A i \in 1..Len(d) : Abs(d[i]) <= m

\* x / m <= t / 100, false when the quotient is NaN (0 / 0)
QuotLe(x, m, t) == m # 0 /\ 100 * x <= t * m
QuotLt(x, m, t) == m # 0 /\ 100 * x < t * m
\* x / m >= t / 100
QuotGe(x, m, t) == m # 0 /\ 100 * x >= t * m

\* the test of line 328 at position i (1-based), d = rri_f_d and m its largest magnitude
IsPacStrict(d, m, i, drop_threshold, rise_threshold) ==
    QuotLt(d[i], m, drop_threshold) /\ QuotGe(d[i + 1], m, rise_threshold)

IsPac(d, m, i, drop_threshold, rise_threshold) ==
    QuotLe(d[i], m, drop_threshold) /\ QuotGe(d[i + 1], m, rise_threshold)

\* get_anomalies_from_rri(rri, indices, **kwargs), lines 299-330
get_anomalies_from_rri(r, ind, kw) ==
    LET values == r.values
        n == Len(values)
        \* lines 307-310
        noIndex == r.kind = "list" /\ ind = <<>>
        index == IF r.kind = "list" /\ ind # <<>> THEN ind[1] ELSE r.index
        drop_threshold == IF "drop_threshold" \in DOMAIN kw
                          THEN kw["drop_threshold"] ELSE DefaultDropThreshold
        rise_threshold == IF "rise_threshold" \in DOMAIN kw
                          THEN kw["rise_threshold"] ELSE DefaultRiseThreshold
    IN IF noIndex THEN Raised                       \* line 309
       ELSE IF Len(index) # n THEN Raised           \* Series(rri, index=indices)
       ELSE IF n = 0 THEN Raised                    \* numpy.convolve: empty input
       ELSE IF n < 7 THEN Raised                    \* Series of n minus array of 7
       ELSE LET d == rri_f_d(values)
                m == AbsMax(d)
                pac == SortedSeq({i \in 1..(n - 1) :
                                    IsPac(d, m, i, drop_threshold, rise_threshold)})
            IN Returned([k \in 1..Len(pac) |-> index[pac[k]]])

\* the interval series the caller holds, in tenths of a second
RriValues == {NaN, Num(5), Num(10), Num(13)}
RriSeqs == UNION {[1..n -> RriValues] : n \in 0..MaxRri}
RangeIndex(n) == [i \in 1..n |-> i - 1]
RowIndex(n) == [i \in 1..n |-> 10 + 2 * (i - 1)]
NoKwargs == [k \in {} |-> 0]
Thresholds(d, r) == [k \in {"drop_threshold", "rise_threshold"} |->
                       IF k = "drop_threshold" THEN d ELSE r]

ANOff ==
    /\ an_pc = "off"
    /\ rri = [kind |-> "list", values |-> <<>>, index |-> <<>>]
    /\ indices = <<>>
    /\ kwargs = NoKwargs
    /\ an_ret = Returned(<<>>)

\* the call of get_anomalies_from_rri
\* the call with line 313 filling the missing values of the caller's series in place
anomalies_call_fillna_inplace ==
    /\ an_pc = "call"
    /\ an_ret' = get_anomalies_from_rri(rri, indices, kwargs)
    /\ an_pc' = "done"
    /\ rri' = [rri EXCEPT !.values = [i \in 1..Len(@) |-> IF IsNaN(@[i]) THEN Num(0) ELSE @[i]]]
    /\ UNCHANGED <<indices, kwargs>>
    /\ UNCHANGED <<hbVars, pmVars, pkVars, flVars, uiVars>>

anomalies_call ==
    /\ an_pc = "call"
    /\ an_ret' = get_anomalies_from_rri(rri, indices, kwargs)
    /\ an_pc' = "done"
    /\ UNCHANGED <<rri, indices, kwargs>>
    /\ UNCHANGED <<hbVars, pmVars, pkVars, flVars, uiVars>>

\* the caller asks again with the series and thresholds of the call that returned
\* (interval_viewer_screen.py calls the detector on every redraw, line 386)
anomalies_call_again ==
    /\ an_pc = "done"
    /\ an_ret' = get_anomalies_from_rri(rri, indices, kwargs)
    /\ an_pc' = "again"
    /\ UNCHANGED <<rri, indices, kwargs>>
    /\ UNCHANGED <<hbVars, pmVars, pkVars, flVars, uiVars>>

\* ------------------------------------------------------------------ get_pulse_metrics
\* the positions (1-based) of the positional slice s[a:b] of a sequence of length
\* len: a negative bound counts from the end, both are clipped to the sequence
PySlice(len, a, b) ==
    LET norm(x) == IF x < 0 THEN Max(x + len, 0) ELSE Min(x, len)
    IN (norm(a) + 1)..norm(b)

\* Series.diff(): entry i minus entry i - 1, NaN in front
SeriesDiffReversed(x) ==
    [i \in 1..Len(x) |-> IF i = 1 THEN NaN ELSE FSub(x[i - 1], x[i])]

SeriesDiff(x) ==
    [i \in 1..Len(x) |-> IF i = 1 THEN NaN ELSE FSub(x[i], x[i - 1])]

\* a series left as it is
NoFill(x) == x

\* Series.bfill(): a NaN takes the next defined value, if there is one
bfill(x) ==
    [i \in 1..Len(x) |->
       IF \A j \in i..Len(x) : IsNaN(x[j]) THEN NaN
       ELSE x[SetMin({j \in i..Len(x) : ~IsNaN(x[j])})]]

N == 3                  \* line 290
MsPerSecond == 1000     \* line 289

\* variability.copy() * 1000, line 289
diffs(intervals) ==
    LET v == SeriesDiff(intervals)
    IN [i \in 1..Len(v) |-> IF IsNaN(v[i]) THEN NaN ELSE Num(v[i][1] * MsPerSecond)]

RECURSIVE SumSquares(_, _)
SumSquares(x, P) ==
    IF P = {} THEN 0
    ELSE LET p == SetMin(P) IN x[p][1] * x[p][1] + SumSquares(x, P \ {p})

\* sqrt(mean(diffs[i - N:i + 1] ** 2)) for the 0-based position i, lines 292-293:
\* the mean of a Series skips NaN and is NaN when nothing is left.  The value
\* sqrt(sum / count) is kept as the pair <<sum, count>>.
RootMeanSquare(x, i) ==
    LET P == {p \in PySlice(Len(x), i - N, i + 1) : ~IsNaN(x[p])}
    IN IF P = {} THEN NaN ELSE Num(<<SumSquares(x, P), Cardinality(P)>>)

\* the variability series after the loop of lines 291-293
variability_loop(intervals) ==
    LET x == diffs(intervals)
    IN [i \in 1..Len(x) |-> RootMeanSquare(x, i - 1)]

\* the function without the check of lines 282-283: a raw array without indices
\* gets the default index 0..n-1
get_pulse_metrics_default_index(ts, ind) ==
    IF ts.kind = "ndarray" /\ ind # <<>> /\ Len(ind[1]) # Len(ts.values) THEN Raised
    ELSE LET index == IF ts.kind # "ndarray" THEN ts.index
                      ELSE IF ind = <<>> THEN [i \in 1..Len(ts.values) |-> i - 1]
                      ELSE ind[1]
             t == [i \in 1..Len(ts.values) |-> Num(ts.values[i])]
             intervals == SeriesDiff(t)
             variability == variability_loop(intervals)
         IN Returned([index |-> index,
                      timestamps |-> ts.values,
                      intervals |-> bfill(intervals),
                      variability |-> bfill(variability)])

\* get_pulse_metrics(timestamps, indices), lines 275-297
get_pulse_metrics(ts, ind) ==
    IF ts.kind = "ndarray" /\ ind = <<>> THEN Raised                  \* line 283
    ELSE IF ts.kind = "ndarray" /\ Len(ind[1]) # Len(ts.values) THEN Raised
    ELSE LET index == IF ts.kind = "ndarray" THEN ind[1] ELSE ts.index
             t == [i \in 1..Len(ts.values) |-> Num(ts.values[i])]
             intervals == SeriesDiff(t)
             variability == variability_loop(intervals)
         IN Returned([index |-> index,
                      timestamps |-> ts.values,
                      intervals |-> bfill(intervals),
                      variability |-> bfill(variability)])

\* the ascending timestamp sequences over 0..MaxT
TimestampSeqs == {SortedSeq(S) : S \in SUBSET (0..MaxT)}

PMOff ==
    /\ pm_pc = "off"
    /\ timestamps = [kind |-> "ndarray", values |-> <<>>, index |-> <<>>]
    /\ pm_indices = <<>>
    /\ pm_ret = Returned(<<>>)

\* the call of get_pulse_metrics
pulse_metrics_call ==
    /\ pm_pc = "call"
    /\ pm_ret' = get_pulse_metrics(timestamps, pm_indices)
    /\ pm_pc' = "done"
    /\ UNCHANGED <<timestamps, pm_indices>>
    /\ UNCHANGED <<hbVars, anVars, pkVars, flVars, uiVars>>

\* ------------------------------------------------------------------ peak_correction
\* the check of line 212 with float among the accepted types
IsNumber(seed) == Len(seed) >= 1

\* isinstance(seed, (int, integer)), line 212
IsInteger(seed) == Len(seed) = 1

\* Series.idxmax() over the positions P (1-based, non-empty) of a Series with a
\* RangeIndex: the label of the first largest value
IdxMax(raw, P) ==
    SetMin({p \in P : \A q \in P : raw[q] <= raw[p]}) - 1

\* raw_signal[seed - window:seed + window], the positions of the slice
SeedSlice(raw, seed, w) == PySlice(Len(raw), seed - w, seed + w)

\* what the body of the for loop does with one seed, lines 212-219:
\* it raises, drops the seed (continue) or appends one index
PeakFor(raw, seed, w) ==
    IF ~IsInteger(seed) THEN [kind |-> "raise", p |-> 0]            \* line 213
    ELSE IF SeedSlice(raw, seed[1], w) = {} THEN [kind |-> "drop", p |-> 0]
    ELSE IF seed[1] < w - 1
         THEN LET P == PySlice(Len(raw), 0, w - 1)
              IN IF P = {} THEN [kind |-> "raise", p |-> 0]         \* idxmax of an empty slice
                 ELSE [kind |-> "peak", p |-> IdxMax(raw, P)]
         ELSE [kind |-> "peak", p |-> IdxMax(raw, SeedSlice(raw, seed[1], w))]

\* one pass of the for loop of line 211
peak_correction_step ==
    /\ pk_pc = "loop"
    /\ num < Len(seeds)
    /\ LET r == PeakFor(raw_signal, seeds[num + 1], window)
       IN /\ pk_pc' = IF r.kind = "raise" THEN "raised" ELSE "loop"
          /\ new_peaks' = IF r.kind = "peak" THEN Append(new_peaks, r.p) ELSE new_peaks
    /\ num' = num + 1
    /\ UNCHANGED <<seeds, raw_signal, window>>
    /\ UNCHANGED <<hbVars, anVars, pmVars, flVars, uiVars>>

\* the loop is exhausted: return new_peaks
peak_correction_return ==
    /\ pk_pc = "loop"
    /\ num = Len(seeds)
    /\ pk_pc' = "done"
    /\ UNCHANGED <<seeds, raw_signal, window, num, new_peaks>>
    /\ UNCHANGED <<hbVars, anVars, pmVars, flVars, uiVars>>

RawValues == {0, 1}
RawSignals == UNION {[1..n -> RawValues] : n \in 0..MaxN}
SeedValues == {<<v>> : v \in (-2)..(MaxN + 1)} \cup {<<1, 5>>}
SeedLists == UNION {[1..n -> SeedValues] : n \in 0..MaxSeeds}

PKOff ==
    /\ pk_pc = "off"
    /\ seeds = <<>>
    /\ raw_signal = <<>>
    /\ window = 0
    /\ num = 0
    /\ new_peaks = <<>>

\* ------------------------------------------------------------------ frequency_filtering_fft
\* A frequency is a float of the extended line, kept exactly: NaN, +inf or -inf
\* (n = 1 or -1), or the fraction n / d with d > 0.
FNaN == [k |-> "nan", n |-> 0, d |-> 1]
FInf(sg) == [k |-> "inf", n |-> sg, d |-> 1]
FRat(n, d) == IF d > 0 THEN [k |-> "num", n |-> n, d |-> d] ELSE [k |-> "num", n |-> -n, d |-> -d]

\* a <= b on floats, the comparison that lets a bin on the band edge through
FLessEq(a, b) ==
    IF a.k = "nan" \/ b.k = "nan" THEN FALSE
    ELSE IF a.k = "inf" /\ b.k = "inf" THEN a.n <= b.n
    ELSE IF a.k = "inf" THEN a.n < 0
    ELSE IF b.k = "inf" THEN b.n > 0
    ELSE a.n * b.d <= b.n * a.d

\* a < b on floats: false when either side is NaN
FLess(a, b) ==
    IF a.k = "nan" \/ b.k = "nan" THEN FALSE
    ELSE IF a.k = "inf" /\ b.k = "inf" THEN a.n < b.n
    ELSE IF a.k = "inf" THEN a.n < 0
    ELSE IF b.k = "inf" THEN b.n > 0
    ELSE a.n * b.d < b.n * a.d

\* numpy.abs
FAbs(a) == IF a.k = "nan" THEN a ELSE [a EXCEPT !.n = Abs(@)]

\* 1 / mean(diff(t_filtered)) of line 58 for a time axis of N samples: the mean of
\* an empty slice is NaN, the differences sum to t[-1] - t[0], and 1 / 0.0 is inf
sampling_frequency(t) ==
    LET len == Len(t)
        delta == t[len] - t[1]
    IN IF len = 1 THEN FNaN
       ELSE IF delta = 0 THEN FInf(1)
       ELSE FRat(len - 1, delta)

\* numpy.fft.fftfreq(N)[k] * N for k in 0..N-1: 0, 1, ..., (N-1)//2, -(N//2), ..., -1
fftfreq(len, k) == IF k <= (len - 1) \div 2 THEN k ELSE k - len

\* line 58: entry k (0-based) of fftfreq(N) * (1 / mean(diff(t_filtered)))
freq(t, k) ==
    LET len == Len(t)
        fs == sampling_frequency(t)
        b == fftfreq(len, k)
    IN IF fs.k = "nan" THEN FNaN
       ELSE IF fs.k = "inf" THEN (IF b = 0 THEN FNaN ELSE IF b > 0 THEN FInf(fs.n) ELSE FInf(-fs.n))
       ELSE FRat(b * fs.n, len * fs.d)

\* an error raised at one of the sites of the function
Raise(what) == [raised |-> TRUE, value |-> what]

\* fft.ifft(X * filter_mask).real, lines 73-74: the signal itself when every bin is
\* kept, the zero signal when none is; of any other reconstruction only the signal
\* and the bins it is built from are kept
ifft_real(y, filter_mask) ==
    IF \A k \in 1..Len(y) : filter_mask[k] THEN y
    ELSE IF \A k \in 1..Len(y) : ~filter_mask[k] THEN [k \in 1..Len(y) |-> 0]
    ELSE [signal |-> y, bins |-> filter_mask]

\* frequency_filtering_fft(y, t, upper, lower, reconstruction_mode), lines 26-76
frequency_filtering_fft(y, t, upper, lower, mode) ==
    LET len == Len(y)
        \* lines 47-48
        time == IF t = <<>> THEN [i \in 1..len |-> i - 1] ELSE t[1]
        \* line 53, for a non-empty time axis
        t_filtered == [i \in 1..len |-> time[i] - SetMin(Range(time))]
        f(k) == IF mode = "all" THEN FAbs(freq(t_filtered, k))                \* lines 60-61
                ELSE freq(t_filtered, k)
        \* lines 66-71
        filter_mask == [k \in 1..len |->
                          IF lower = <<>> THEN FLess(f(k - 1), upper[1])
                          ELSE IF upper = <<>> THEN FLess(lower[1], f(k - 1))
                          ELSE FLess(f(k - 1), upper[1]) /\ FLess(lower[1], f(k - 1))]
    IN IF t # <<>> /\ Len(t[1]) # len THEN Raise("input shape")             \* line 51
       ELSE IF len = 0 THEN Raise("zero-size array")                         \* numpy.min, line 53
       ELSE IF mode \notin {"all", "positive"} THEN Raise("configuration") \* line 63
       ELSE IF lower = <<>> /\ upper = <<>> THEN Raise("type")             \* freq < None, line 67
       ELSE Returned([filter_mask |-> filter_mask, y_filtered |-> ifft_real(y, filter_mask)])

\* the arguments the filter is called with
FFTSignals == UNION {[1..n -> {0, 1}] : n \in 0..MaxFN}
TimeAxes(n) == {s \in [1..n -> 0..MaxFT] : \A i \in 1..(n - 1) : s[i] <= s[i + 1]}
Modes == {"all", "positive", "negative"}
Uppers == {<<>>, <<FRat(1, 4)>>, <<FInf(1)>>}
Lowers == {<<>>, <<FRat(1, 4)>>}

FFOff ==
    /\ ff_pc = "off"
    /\ ff_y = <<>>
    /\ ff_t = <<>>
    /\ ff_upper = <<>>
    /\ ff_lower = <<>>
    /\ reconstruction_mode = "all"
    /\ ff_ret = Returned(<<>>)

fft_call ==
    /\ ff_pc = "call"
    /\ ff_ret' = frequency_filtering_fft(ff_y, ff_t, ff_upper, ff_lower, reconstruction_mode)
    /\ ff_pc' = "done"
    /\ UNCHANGED <<ff_y, ff_t, ff_upper, ff_lower, reconstruction_mode>>
    /\ UNCHANGED <<hbVars, anVars, pmVars, pkVars, smVars, bwVars, gpVars, uiVars>>

\* ------------------------------------------------------------------ frequency_filtering_butterworth
\* the critical frequencies handed to the design with a highpass built from upper
critical_frequencies_highpass_upper(mode, upper, lower) ==
    IF mode \in {"bandpass", "bandstop"} THEN <<lower, upper>>
    ELSE <<upper>>

\* the Wn argument of the butter call of lines 95-100, as the list of the
\* arguments it is made of (each <<>> for None or <<Hz>>)
critical_frequencies(mode, upper, lower) ==
    IF mode \in {"bandpass", "bandstop"} THEN <<lower, upper>>
    ELSE IF mode = "lowpass" THEN <<upper>>
    ELSE <<lower>>

\* scipy.signal.butter(order, Wn, btype, fs=fs, output='ba'): Wn is scaled by
\* 2 / fs, which raises TypeError on None, and must lie strictly between 0 and 1;
\* of the coefficients only their number is kept (order + 1, or 2 * order + 1 for
\* the two-sided modes)
butter(order, Wn, mode, fs) ==
    IF \E i \in 1..Len(Wn) : Wn[i] = <<>> THEN Raise("type")
    ELSE IF \E i \in 1..Len(Wn) : 2 * Wn[i][1] <= 0 \/ 2 * Wn[i][1] >= fs
         THEN Raise("critical frequency")
    ELSE Returned([order |-> order, Wn |-> Wn, btype |-> mode, fs |-> fs,
                   taps |-> IF Len(Wn) = 2 THEN 2 * order + 1 ELSE order + 1])

\* scipy.signal.filtfilt(b, a, x): the signal must be longer than the default
\* padding of 3 * max(len(a), len(b)) samples; of the zero-phase result only the
\* filter and the signal it is computed from are kept
filtfilt(design, x) ==
    IF Len(x) <= 3 * design.taps THEN Raise("padlen")
    ELSE Returned([filter |-> design, signal |-> x])

BWSignals == {[i \in 1..n |-> i % 2] : n \in 0..MaxBN}
BTypes == {"bandpass", "bandstop", "lowpass", "highpass", "notch"}

BWOff ==
    /\ bw_pc = "off"
    /\ bw_y = <<>>
    /\ bw_fs = 130
    /\ bw_order = 1
    /\ btype = "bandpass"
    /\ bw_upper = <<>>
    /\ bw_lower = <<>>
    /\ bw_filter = <<>>
    /\ bw_ret = Returned(<<>>)

\* lines 95-102: the design of the filter, or the KeyError for any other btype
butterworth_design ==
    /\ bw_pc = "design"
    /\ IF btype \in {"bandpass", "bandstop", "lowpass", "highpass"}
       THEN LET design == butter(bw_order, critical_frequencies(btype, bw_upper, bw_lower),
                                 btype, bw_fs)
            IN IF design.raised
               THEN bw_pc' = "raised" /\ bw_ret' = design /\ bw_filter' = bw_filter
               ELSE bw_pc' = "filter" /\ bw_ret' = bw_ret /\ bw_filter' = <<design.value>>
       ELSE bw_pc' = "raised" /\ bw_ret' = Raise("configuration") /\ bw_filter' = bw_filter
    /\ UNCHANGED <<bw_y, bw_fs, bw_order, btype, bw_upper, bw_lower>>
    /\ UNCHANGED <<hbVars, anVars, pmVars, pkVars, smVars, ffVars, gpVars, uiVars>>

\* lines 103-104: the forward-backward filtering and the return
butterworth_filtfilt ==
    /\ bw_pc = "filter"
    /\ bw_ret' = filtfilt(bw_filter[1], bw_y)
    /\ bw_pc' = IF bw_ret'.raised THEN "raised" ELSE "done"
    /\ UNCHANGED <<bw_y, bw_fs, bw_order, btype, bw_upper, bw_lower, bw_filter>>
    /\ UNCHANGED <<hbVars, anVars, pmVars, pkVars, smVars, ffVars, gpVars, uiVars>>

\* ------------------------------------------------------------------ get_peaks
\* a < b on floats: False when either side is NaN
FLt(a, b) == ~IsNaN(a) /\ ~IsNaN(b) /\ a[1] < b[1]

RECURSIVE sort(_)
\* numpy's sort of an array of numbers (the quantile partitions the samples)
sort(values) ==
    IF values = <<>> THEN <<>>
    ELSE LET m == CHOOSE i \in 1..Len(values) : \A j \in 1..Len(values) : values[i] <= values[j]
         IN <<values[m]>> \o sort(SubSeq(values, 1, m - 1) \o SubSeq(values, m + 1, Len(values)))

\* numpy.quantile(y, q) of a non-empty y for 0 <= q <= 1, method 'linear': the value at
\* the position q * (N - 1) of the sorted samples, interpolated between its neighbours.
\* The result is the fraction [n, d]; NaN when a sample is NaN.
quantile(y, q) ==
    IF \E i \in 1..Len(y) : IsNaN(y[i]) THEN NaN
    ELSE LET s == sort([i \in 1..Len(y) |-> y[i][1]])
             lo == (q[1] * (Len(y) - 1)) \div q[2]
             hi == Min(lo + 1, Len(y) - 1)
             part == q[1] * (Len(y) - 1) - q[2] * lo
         IN << [n |-> q[2] * s[lo + 1] + part * (s[hi + 1] - s[lo + 1]), d |-> q[2]] >>

RECURSIVE PlateauEnd(_, _, _)
\* the first sample from i_ahead on that differs from x[i], or the last sample
PlateauEnd(x, i, i_ahead) ==
    IF i_ahead < Len(x) - 1 /\ x[i_ahead + 1] = x[i + 1] /\ ~IsNaN(x[i + 1])
    THEN PlateauEnd(x, i, i_ahead + 1)
    ELSE i_ahead

RECURSIVE local_maxima(_, _)
\* scipy's _local_maxima_1d from the sample i on (0-based): a rise into a plateau that
\* is followed by a fall is a peak, at the plateau's middle; the first and the last
\* sample are no peaks
local_maxima(x, i) ==
    IF i >= Len(x) - 1 THEN <<>>
    ELSE IF FLt(x[i], x[i + 1])
    THEN LET i_ahead == PlateauEnd(x, i, i + 1)
         IN IF FLt(x[i_ahead + 1], x[i + 1])
            THEN << (i + (i_ahead - 1)) \div 2 >> \o local_maxima(x, i_ahead + 1)
            ELSE local_maxima(x, i + 1)
    ELSE local_maxima(x, i + 1)

\* height <= x on floats, height a fraction: False when either side is NaN
AtLeast(x, height) ==
    ~IsNaN(x) /\ ~IsNaN(height) /\ height[1].d * x[1] >= height[1].n

\* the peak search without the condition on the height
find_peaks_any_height(x, height) ==
    LET peaks == local_maxima(x, 1)
    IN [peaks |-> peaks,
        properties |-> [peak_heights |-> [k \in 1..Len(peaks) |-> x[peaks[k] + 1]]]]

\* scipy.signal.find_peaks(x, height=height): the local maxima whose sample is at
\* least `height`, with their heights as the property 'peak_heights'
find_peaks(x, height) ==
    LET all == local_maxima(x, 1)
        Keep(p) == AtLeast(x[p + 1], height)
        peaks == SelectSeq(all, Keep)
    IN [peaks |-> peaks,
        properties |-> [peak_heights |-> [k \in 1..Len(peaks) |-> x[peaks[k] + 1]]]]

\* get_peaks(y, quant, output) without further keywords, lines 186-192, for a
\* non-empty y and 0 <= quant <= 1
get_peaks(y, quant, output) ==
    LET height == quantile(y, quant)
        peaks == find_peaks(y, height)
    IN IF output = "locs" THEN [kind |-> "locs", peaks |-> peaks.peaks]
       ELSE [kind |-> "tuple", peaks |-> peaks.peaks, properties |-> peaks.properties]

\* the signals searched, the quantiles and the outputs asked for
PeakSignals == UNION {[1..n -> {Num(v) : v \in 0..MaxPY} \cup {NaN}] : n \in 0..MaxPN}
Quantiles == {<<0, 1>>, <<1, 2>>, <<4, 5>>, <<1, 1>>, <<3, 2>>}
Outputs == {"all", "locs", "vals"}

GPOff ==
    /\ gp_pc = "off"
    /\ gp_y = <<>>
    /\ gp_quant = <<4, 5>>
    /\ gp_output = "all"
    /\ gp_ret = Returned(<<>>)

\* one call.  numpy.quantile raises ValueError for a quantile outside [0, 1]; of an
\* empty array it raises IndexError or gives NaN with a warning, depending on the
\* version of numpy, and with NaN as the height no sample is a peak.
get_peaks_call ==
    /\ gp_pc = "call"
    /\ IF gp_quant[1] < 0 \/ gp_quant[1] > gp_quant[2]
       THEN gp_ret' = Raised
       ELSE IF gp_y = <<>>
       THEN gp_ret' \in {Raised,
                         Returned(IF gp_output = "locs"
                                  THEN [kind |-> "locs", peaks |-> <<>>]
                                  ELSE [kind |-> "tuple", peaks |-> <<>>,
                                        properties |-> [peak_heights |-> <<>>]])}
       ELSE gp_ret' = Returned(get_peaks(gp_y, gp_quant, gp_output))
    /\ gp_pc' = "done"
    /\ UNCHANGED <<gp_y, gp_quant, gp_output>>
    /\ UNCHANGED <<hbVars, anVars, pmVars, pkVars, smVars, ffVars, bwVars, uiVars>>

\* ------------------------------------------------------------------ GraphHandler
\* matplotlib MouseEvent: the button (1 left, 2 middle, 3 right, 8 back; 0 stands
\* for None, no button) and the data coordinates, both <<>> (None) outside the axes
Buttons == {1, 2, 3, 8}
Coords == {[xdata |-> <<>>, ydata |-> <<>>]}
            \cup {[xdata |-> <<x>>, ydata |-> <<v>>] : x \in 0..MaxCoord, v \in 0..MaxCoord}
MouseEvent(button, c) == [button |-> button, xdata |-> c.xdata, ydata |-> c.ydata]
PressEvents == {MouseEvent(b, c) : b \in Buttons, c \in Coords}
MotionEvents == {MouseEvent(0, c) : c \in Coords}
ReleaseEvents == {MouseEvent(b, c) : b \in Buttons, c \in Coords}

\* the state after __init__ (line 178) with the global of line 40
GHOff ==
    /\ click_event = <<>>
    /\ dragging = FALSE
    /\ gh_handler = ""
    /\ gh_invoked = {}
    /\ pending_press = <<>>
    /\ moved = FALSE

\* the motion has data coordinates and they are not those of the press
MovedAwayFrom(press, event) ==
    /\ event.xdata # <<>> /\ event.ydata # <<>>
    /\ (press.xdata # event.xdata \/ press.ydata # event.ydata)

\* on_axis_leave, lines 854-861 (remove_hover, lines 339-340, clears click_event too)
on_axis_leave ==
    /\ click_event' = <<>>
    /\ gh_handler' = "on_axis_leave"
    /\ gh_invoked' = {}
    /\ pending_press' = <<>>
    /\ moved' = FALSE
    /\ UNCHANGED dragging
    /\ UNCHANGED <<hbVars, anVars, pmVars, pkVars, flVars, ivVars>>

\* the handler with every motion over the axes taken for a drag (no test of line 878)
on_mouse_motion_any(event) ==
    /\ gh_handler' = "on_mouse_motion"
    /\ IF event.xdata = <<>> \/ event.ydata = <<>>
       THEN gh_invoked' = {} /\ UNCHANGED dragging
       ELSE LET hover == IF dragging THEN {} ELSE {"hover"}
            IN IF click_event = <<>>
               THEN gh_invoked' = hover /\ UNCHANGED dragging
               ELSE LET press == click_event[1]
                    IN /\ dragging' = TRUE
                       /\ gh_invoked' = hover \cup
                            (IF press.xdata = <<>> \/ press.ydata = <<>> THEN {}
                             ELSE IF press.button = 1 THEN {"move_by"}
                             ELSE IF press.button = 3 THEN {"zoom"}
                             ELSE {})
    /\ moved' = (moved \/ (pending_press # <<>> /\ MovedAwayFrom(pending_press[1], event)))
    /\ UNCHANGED <<click_event, pending_press>>
    /\ UNCHANGED <<hbVars, anVars, pmVars, pkVars, flVars, ivVars>>

\* on_mouse_motion with on_drag, lines 863-899 (axis_pointer is never None: it is
\* a tuple from __init__ on)
on_mouse_motion(event) ==
    /\ gh_handler' = "on_mouse_motion"
    /\ IF event.xdata = <<>> \/ event.ydata = <<>>
       THEN gh_invoked' = {} /\ UNCHANGED dragging                        \* line 872
       ELSE LET hover == IF dragging THEN {} ELSE {"hover"}                \* line 874
            IN IF click_event = <<>>
               THEN gh_invoked' = hover /\ UNCHANGED dragging             \* line 876
               ELSE LET press == click_event[1]
                    IN IF press.xdata = event.xdata /\ press.ydata = event.ydata
                       THEN gh_invoked' = hover /\ UNCHANGED dragging     \* line 878
                       ELSE /\ dragging' = TRUE                           \* line 889
                            /\ gh_invoked' = hover \cup
                                 (IF press.xdata = <<>> \/ press.ydata = <<>> THEN {}
                                  ELSE IF press.button = 1 THEN {"move_by"}
                                  ELSE IF press.button = 3 THEN {"zoom"}
                                  ELSE {})
    /\ moved' = (moved \/ (pending_press # <<>> /\ MovedAwayFrom(pending_press[1], event)))
    /\ UNCHANGED <<click_event, pending_press>>
    /\ UNCHANGED <<hbVars, anVars, pmVars, pkVars, flVars, ivVars>>

\* on_click, lines 901-909
on_click(event) ==
    /\ click_event' = <<event>>
    /\ dragging' = FALSE
    /\ gh_handler' = "on_click"
    /\ gh_invoked' = {}
    /\ pending_press' = <<event>>
    /\ moved' = FALSE
    /\ UNCHANGED <<hbVars, anVars, pmVars, pkVars, flVars, ivVars>>

\* on_release, lines 911-933
on_release(event) ==
    /\ gh_handler' = "on_release"
    /\ IF dragging
       THEN dragging' = FALSE /\ click_event' = <<>> /\ gh_invoked' = {}      \* lines 920-923
       ELSE IF click_event = <<>>
       THEN dragging' = FALSE /\ click_event' = <<>> /\ gh_invoked' = {}      \* lines 924-926
       ELSE /\ gh_invoked' = IF click_event[1].button = 1 THEN {"left_select"}
                             ELSE IF click_event[1].button = 3 THEN {"right_select"}
                             ELSE IF click_event[1].button = 2 THEN {"middle_select"}
                             ELSE {}
            /\ click_event' = <<>>
            /\ UNCHANGED dragging
    /\ pending_press' = <<>>
    /\ moved' = FALSE
    /\ UNCHANGED <<hbVars, anVars, pmVars, pkVars, flVars, ivVars>>

\* ------------------------------------------------------------------ IntervalScreen
\* the column 'sensor timer [s]' of the loaded recording, by row: sample times of
\* which no two pairs are equally far apart
SensorTimer(r) == 2 ^ r

\* get_pulse_metrics(heartbeats['sensor timer [s]']) as the rows of the returned frame
segment_metrics(heartbeats_) ==
    LET ts == [kind |-> "Series",
               values |-> [i \in 1..Len(heartbeats_) |-> SensorTimer(heartbeats_[i])],
               index |-> heartbeats_]
        m == get_pulse_metrics(ts, <<>>).value
    IN [i \in 1..Len(heartbeats_) |->
          [index |-> m.index[i], timestamp |-> m.timestamps[i],
           interval |-> m.intervals[i], variability |-> m.variability[i]]]

\* the metrics taken of all the heartbeats at once, the segments joined
concat_of_joined_segments(segments) == segment_metrics(Concat(segments))

\* lines 378-382: the metrics of each segment, then pd.concat
concat_of_segment_metrics(segments) ==
    Concat([k \in 1..Len(segments) |-> segment_metrics(segments[k])])

IVOff ==
    /\ iv_pc = "off"
    /\ pulse_metrics = <<>>

\* display_rri_and_hr_graph, lines 371-385, from the return of its call of
\* get_heartbeats (line 377) on: an empty list ends the call; a table of at most 10
\* rows ends it at line 385, before any anomaly is looked for
display_rri_and_hr_graph ==
    /\ hb_pc = "done"
    /\ iv_pc = "off"
    /\ Len(Concat(heartbeat_segments)) <= 10
    /\ iv_pc' = "done"
    /\ pulse_metrics' = IF Len(heartbeat_segments) = 0 THEN <<>>
                        ELSE << concat_of_segment_metrics(heartbeat_segments) >>
    /\ UNCHANGED <<hbVars, anVars, pmVars, pkVars, flVars, ghVars>>

\* the call is over: its locals, the list of segments and the table, go away
display_return ==
    /\ iv_pc = "done"
    /\ iv_pc' = "off"
    /\ pulse_metrics' = <<>>
    /\ hb_pc' = "idle"
    /\ heartbeats' = <<>>
    /\ breaks' = <<>>
    /\ step' = 0
    /\ last_break' = 0
    /\ heartbeat_segments' = <<>>
    /\ UNCHANGED <<plot_data, label_list, selected_label, toggle_call>>
    /\ UNCHANGED <<anVars, pmVars, pkVars, flVars, ghVars>>

UIOff == GHOff /\ IVOff

\* ------------------------------------------------------------------ specifications
\* no call of the filter toolbox is in progress
FLOff == SMOff /\ FFOff /\ BWOff /\ GPOff

InitHB == HBOff /\ ANOff /\ PMOff /\ PKOff /\ FLOff /\ UIOff

GetHeartbeatsStep ==
    \/ get_heartbeats_skip
    \/ get_heartbeats_append

NextHB ==
    \/ open_file
    \/ \E l \in Labels : declare_label(l)
    \/ \E i \in 0..(MaxRows - 1), l \in Labels : annotate(i, l)
    \/ get_heartbeats_call
    \/ get_heartbeats_skip
    \/ get_heartbeats_append
    \/ get_heartbeats_return

SpecHB == InitHB /\ [][NextHB]_vars

\* the interpreter runs the statements of a started call one after another
SpecHBFair == SpecHB /\ WF_vars(GetHeartbeatsStep)

InitAN ==
    /\ HBOff
    /\ UIOff
    /\ PMOff
    /\ PKOff
    /\ FLOff
    /\ an_pc = "call"
    /\ an_ret = Returned(<<>>)
    /\ \E v \in RriSeqs :
         \/ /\ rri = [kind |-> "Series", values |-> v, index |-> RowIndex(Len(v))]
            /\ indices = <<>>
            /\ kwargs = Thresholds(-15, 25)
         \/ /\ rri = [kind |-> "Series", values |-> v, index |-> RangeIndex(Len(v))]
            /\ indices = <<>>
            /\ kwargs = [k \in {"drop_threshold"} |-> -100]
         \/ /\ rri = [kind |-> "list", values |-> v, index |-> <<>>]
            /\ indices \in {<<>>, << RowIndex(Len(v)) >>}
            /\ kwargs = NoKwargs

NextAN == anomalies_call

SpecAN == InitAN /\ [][NextAN]_vars

InitPM ==
    /\ HBOff
    /\ UIOff
    /\ ANOff
    /\ PKOff
    /\ FLOff
    /\ pm_pc = "call"
    /\ pm_ret = Returned(<<>>)
    /\ \E v \in TimestampSeqs :
         \/ /\ timestamps = [kind |-> "Series", values |-> v, index |-> RowIndex(Len(v))]
            /\ pm_indices = <<>>
         \/ /\ timestamps = [kind |-> "ndarray", values |-> v, index |-> <<>>]
            /\ pm_indices \in {<<>>, << RangeIndex(Len(v)) >>, << RowIndex(Len(v)) >>}

NextPM == pulse_metrics_call

SpecPM == InitPM /\ [][NextPM]_vars

InitPK ==
    /\ HBOff
    /\ UIOff
    /\ ANOff
    /\ PMOff
    /\ FLOff
    /\ pk_pc = "loop"
    /\ seeds \in SeedLists
    /\ raw_signal \in RawSignals
    /\ window \in 0..MaxWindow
    /\ num = 0
    /\ new_peaks = <<>>

NextPK ==
    \/ peak_correction_step
    \/ peak_correction_return

SpecPK == InitPK /\ [][NextPK]_vars

\* two calls of the detector on one series, a call of get_pulse_metrics at any
\* point before, between or after them
InitAN2 ==
    /\ HBOff
    /\ UIOff
    /\ PKOff
    /\ FLOff
    /\ an_pc = "call"
    /\ an_ret = Returned(<<>>)
    /\ \E v \in RriSeqs : rri = [kind |-> "Series", values |-> v, index |-> RowIndex(Len(v))]
    /\ indices = <<>>
    /\ kwargs = Thresholds(-15, 25)
    /\ pm_pc = "call"
    /\ timestamps = [kind |-> "ndarray", values |-> <<0, 1, 3>>, index |-> <<>>]
    /\ pm_indices = << RangeIndex(3) >>
    /\ pm_ret = Returned(<<>>)

NextAN2 ==
    \/ anomalies_call
    \/ anomalies_call_again
    \/ pulse_metrics_call

SpecAN2 == InitAN2 /\ [][NextAN2]_vars

InitSM ==
    /\ HBOff
    /\ UIOff
    /\ GPOff
    /\ ANOff
    /\ PMOff
    /\ PKOff
    /\ FFOff
    /\ BWOff
    /\ sm_pc = "call"
    /\ sm_kernel \in {"gaussian", "exponential"}
    /\ sm_y \in Signals
    /\ sm_L \in 0..MaxL
    /\ sm_ret = Returned(<<>>)

NextSM == smoothing_call

SpecSM == InitSM /\ [][NextSM]_vars

InitFF ==
    /\ HBOff
    /\ UIOff
    /\ GPOff
    /\ ANOff
    /\ PMOff
    /\ PKOff
    /\ SMOff
    /\ BWOff
    /\ ff_pc = "call"
    /\ ff_y \in FFTSignals
    /\ ff_t \in {<<>>} \cup {<<s>> : s \in TimeAxes(Len(ff_y)) \cup TimeAxes(Len(ff_y) + 1)}
    /\ ff_upper \in Uppers
    /\ ff_lower \in Lowers
    /\ reconstruction_mode \in Modes
    /\ ff_ret = Returned(<<>>)

NextFF == fft_call

SpecFF == InitFF /\ [][NextFF]_vars

InitBW ==
    /\ HBOff
    /\ UIOff
    /\ GPOff
    /\ ANOff
    /\ PMOff
    /\ PKOff
    /\ SMOff
    /\ FFOff
    /\ bw_pc = "design"
    /\ bw_y \in BWSignals
    /\ bw_fs \in {50, 130}
    /\ bw_order \in 1..MaxOrder
    /\ btype \in BTypes
    /\ bw_upper \in {<<>>, <<40>>}
    /\ bw_lower \in {<<>>, <<1>>}
    /\ bw_filter = <<>>
    /\ bw_ret = Returned(<<>>)

NextBW ==
    \/ butterworth_design
    \/ butterworth_filtfilt

SpecBW == InitBW /\ [][NextBW]_vars

InitGP ==
    /\ HBOff
    /\ UIOff
    /\ ANOff
    /\ PMOff
    /\ PKOff
    /\ SMOff
    /\ FFOff
    /\ BWOff
    /\ gp_pc = "call"
    /\ gp_y \in PeakSignals
    /\ gp_quant \in Quantiles
    /\ gp_output \in Outputs
    /\ gp_ret = Returned(<<>>)

NextGP == get_peaks_call

SpecGP == InitGP /\ [][NextGP]_vars

\* the calls of toggle_selected_label with their outcomes, on the tables that hold
\* columns of the two default labels
InitTG == InitHB

NextTG ==
    \/ open_file
    \/ \E l \in DEFAULT_HEARTBEAT_CLASSES \cup SEGMENT_DENOMINATORS : declare_label(l)
    \/ \E i \in IndexArguments, l \in LabelArguments : toggle_selected_label(i, l)
    \/ toggle_return

SpecTG == InitTG /\ [][NextTG]_vars

\* the interval viewer: the store is edited, and get_heartbeats runs as the first
\* statement of display_rri_and_hr_graph
InitIV == InitHB

NextIV ==
    \/ open_file
    \/ \E l \in Labels : declare_label(l)
    \/ \E i \in 0..(MaxRows - 1), l \in Labels : annotate(i, l)
    \/ get_heartbeats_call
    \/ get_heartbeats_skip
    \/ get_heartbeats_append
    \/ display_rri_and_hr_graph
    \/ display_return

SpecIV == InitIV /\ [][NextIV]_vars

InitGH == HBOff /\ ANOff /\ PMOff /\ PKOff /\ FLOff /\ GHOff /\ IVOff

NextGH ==
    \/ on_axis_leave
    \/ \E e \in MotionEvents : on_mouse_motion(e)
    \/ \E e \in PressEvents : on_click(e)
    \/ \E e \in ReleaseEvents : on_release(e)

SpecGH == InitGH /\ [][NextGH]_vars

\* ------------------------------------------------------------------ claims, get_heartbeats
\* what the store holds, read independently of the call's locals
StoreHeartbeats ==
    IF plot_data = <<>> THEN <<>>
    ELSE get_label_data(plot_data[1], DEFAULT_HEARTBEAT_CLASSES \cap DOMAIN plot_data[1].cols)

StoreMarkers ==
    IF plot_data = <<>> THEN {}
    ELSE Range(get_label_data(plot_data[1], SEGMENT_DENOMINATORS \cap DOMAIN plot_data[1].cols))

MarkerDeclared == SEGMENT_DENOMINATORS \cap label_list # {}

\* C1: two heartbeats h < h' of the returned list lie in the same segment if and
\* only if no marker m has h <= m < h'; with no marker label declared the whole
\* heartbeat set is returned as one segment.
C1_SegmentsSplitAtMarkers ==
    hb_pc = "done" =>
      /\ \A i, j \in DOMAIN heartbeat_segments :
           \A h \in Range(heartbeat_segments[i]), h2 \in Range(heartbeat_segments[j]) :
              h < h2 => ((i = j) <=> ~ \E m \in StoreMarkers : h <= m /\ m < h2)
      /\ (plot_data # <<>> /\ label_list # {} /\ ~MarkerDeclared)
            => heartbeat_segments = << StoreHeartbeats >>

\* a returned list of two segments, one of them with two heartbeats and a marker inside
C1_Witness ==
    /\ hb_pc = "done"
    /\ Len(heartbeat_segments) = 2
    /\ Len(heartbeat_segments[1]) = 2
    /\ heartbeat_segments[1][1] \notin StoreMarkers
    /\ heartbeat_segments[1][2] \in StoreMarkers

\* C2: the segments, concatenated in output order, are the ascending list of all
\* heartbeat indices: none is lost, none appears twice.
C2_NoHeartbeatLost ==
    hb_pc = "done" => Concat(heartbeat_segments) = StoreHeartbeats

\* C3: with no heartbeat index present the result is the empty list of segments.
C3_NoHeartbeatsNoSegments ==
    (hb_pc = "done" /\ StoreHeartbeats = <<>>) => heartbeat_segments = <<>>

\* C4: every call of get_heartbeats that enters the segmenting loop leaves it.
C4_Terminates == (hb_pc = "loop") ~> (hb_pc = "done")

\* ------------------------------------------------------------------ claims, get_anomalies_from_rri
FillZero(values) == [i \in 1..Len(values) |-> IF IsNaN(values[i]) THEN Num(0) ELSE values[i]]

\* C5: position i (0 <= i < len - 1) is returned if and only if n[i] <= drop_threshold
\* and n[i+1] >= rise_threshold, n = d / max|d|, the thresholds -0.15 and 0.25 unless
\* overridden; the result holds the index labels of exactly those positions in
\* ascending position order, and never the last position.
C5_FlaggedPositions ==
    (an_pc = "done" /\ ~an_ret.raised) =>
      LET n == Len(rri.values)
          index == IF rri.kind = "list" THEN indices[1] ELSE rri.index
          d == rri_f_d(rri.values)
          m == AbsMax(d)
          drop == IF "drop_threshold" \in DOMAIN kwargs THEN kwargs["drop_threshold"] ELSE -15
          rise == IF "rise_threshold" \in DOMAIN kwargs THEN kwargs["rise_threshold"] ELSE 25
          flagged == {i \in 0..(n - 2) :
                        /\ m # 0
                        /\ 100 * d[i + 1] <= drop * m
                        /\ 100 * d[i + 2] >= rise * m}
          out == an_ret.value
      IN /\ Range(out) = {index[i + 1] : i \in flagged}
         /\ Len(out) = Cardinality(flagged)
         /\ \A k \in 1..(Len(out) - 1) : out[k] < out[k + 1]
         /\ index[n] \notin Range(out)

\* a call with the default thresholds that returned a flagged position
C5_Witness ==
    /\ an_pc = "done"
    /\ ~an_ret.raised
    /\ kwargs = NoKwargs
    /\ Len(an_ret.value) >= 1

\* C6: the result for an input with missing values is the result for the same
\* input with every missing value replaced by 0.
C6_NaNTreatedAsZero ==
    an_pc = "done" =>
      an_ret = get_anomalies_from_rri([rri EXCEPT !.values = FillZero(@)], indices, kwargs)

\* ------------------------------------------------------------------ claims, get_pulse_metrics
HasNaN(x) == \E i \in 1..Len(x) : IsNaN(x[i])
AllNaN(x) == \A i \in 1..Len(x) : IsNaN(x[i])
\* the two series before the back-fill, recomputed from the input
IntervalsBeforeFill == SeriesDiff([i \in 1..Len(timestamps.values) |-> Num(timestamps.values[i])])
VariabilityBeforeFill == variability_loop(IntervalsBeforeFill)
\* x is raw with every undefined position in front of a defined one holding the
\* first defined value after it
LeadingFilled(x, raw) ==
    \A i \in 1..Len(raw) :
       \A j \in i..Len(raw) :
          (~IsNaN(raw[j]) /\ \A k \in i..(j - 1) : IsNaN(raw[k])) => x[i] = raw[j]

PMReturned == pm_pc = "done" /\ ~pm_ret.raised

\* C7 as claimed: for every non-empty timestamp sequence neither returned series
\* holds an undefined entry.
C7_NoNaNAfterBackfill ==
    (PMReturned /\ Len(timestamps.values) >= 1) =>
      /\ ~HasNaN(pm_ret.value.intervals)
      /\ ~HasNaN(pm_ret.value.variability)

\* C7 amended: the intervals hold no undefined entry from 2 timestamps on, the
\* variability from 3 timestamps on, every undefined position in front of a
\* defined one holds the first defined value of its series; with fewer
\* timestamps the series is undefined throughout.
C7_BackfillWhereDefined ==
    PMReturned =>
      LET n == Len(timestamps.values)
          t == pm_ret.value
      IN /\ n >= 2 => ~HasNaN(t.intervals)
         /\ n >= 3 => ~HasNaN(t.variability)
         /\ n < 2 => AllNaN(t.intervals)
         /\ n < 3 => AllNaN(t.variability)
         /\ LeadingFilled(t.intervals, IntervalsBeforeFill)
         /\ LeadingFilled(t.variability, VariabilityBeforeFill)

\* a table of four beats: one interval and three variability entries were filled
C7_Witness ==
    /\ PMReturned
    /\ Len(timestamps.values) = 4
    /\ pm_ret.value.variability[1] = pm_ret.value.variability[4]
    /\ pm_ret.value.intervals[1] # pm_ret.value.intervals[3]

\* C8: one row per timestamp, index labels and timestamps as given, the interval
\* of every position i >= 1 is timestamps[i] - timestamps[i-1], and position 0
\* carries the interval of position 1.
C8_Intervals ==
    PMReturned =>
      LET n == Len(timestamps.values)
          t == pm_ret.value
          index == IF timestamps.kind = "ndarray" THEN pm_indices[1] ELSE timestamps.index
      IN /\ Len(t.index) = n /\ Len(t.timestamps) = n
         /\ Len(t.intervals) = n /\ Len(t.variability) = n
         /\ t.index = index
         /\ t.timestamps = timestamps.values
         /\ \A i \in 2..n : t.intervals[i] = Num(timestamps.values[i] - timestamps.values[i - 1])
         /\ n >= 2 => t.intervals[1] = t.intervals[2]

\* a table of at least three beats with unequal intervals, indexed by row labels
C8_Witness ==
    /\ PMReturned
    /\ Len(timestamps.values) >= 3
    /\ pm_ret.value.index = RowIndex(Len(timestamps.values))
    /\ pm_ret.value.intervals[2] # pm_ret.value.intervals[3]

\* ------------------------------------------------------------------ claims, peak_correction
\* the samples of [s - w, s + w) that lie in the record [0, N), as positions (1-based)
ClippedWindow(raw, s, w) == {p \in 1..Len(raw) : s - w <= p - 1 /\ p - 1 < s + w}

\* C9: the entry returned for an integral seed s is the index of the (first)
\* maximum of the raw signal within [s - w, s + w) clipped to [0, N); it lies in
\* that range and its value is at least raw[s] when s is inside the record.
C9_EntryIsWindowMaximum ==
    [][(pk_pc = "loop" /\ Len(new_peaks') = Len(new_peaks) + 1) =>
        LET s == seeds[num + 1][1]
            p == new_peaks'[Len(new_peaks')]
            W == ClippedWindow(raw_signal, s, window)
        IN /\ W # {}
           /\ p = IdxMax(raw_signal, W)
           /\ Max(0, s - window) <= p /\ p < Min(Len(raw_signal), s + window)
           /\ (0 <= s /\ s < Len(raw_signal)) => raw_signal[p + 1] >= raw_signal[s + 1]
      ]_vars

\* C10: a seed whose window has a sample in common with the record is never
\* dropped: the pass of the loop that handles it appends exactly one entry.
C10_DroppedOnlyIfOutside ==
    [][(pk_pc = "loop" /\ pk_pc' = "loop" /\ num' = num + 1
          /\ ClippedWindow(raw_signal, seeds[num + 1][1], window) # {})
        => Len(new_peaks') = Len(new_peaks) + 1
      ]_vars

\* C11: with window = 0 the returned list is the list of seeds, for every list of
\* integral seeds inside the record.
C11_WindowZeroIdentity ==
    (pk_pc = "done" /\ window = 0
       /\ \A k \in 1..Len(seeds) :
             Len(seeds[k]) = 1 /\ 0 <= seeds[k][1] /\ seeds[k][1] < Len(raw_signal))
      => new_peaks = [k \in 1..Len(seeds) |-> seeds[k][1]]

\* C12: a call that is given the series together with its index never raises,
\* whatever the length of the series (0 and lengths below 7 included), and returns
\* a possibly empty collection of labels of that index.
C12_NeverRaisesWithIndex ==
    LET index == IF rri.kind = "list" /\ indices # <<>> THEN indices[1] ELSE rri.index
    IN (an_pc = "done" /\ ~(rri.kind = "list" /\ indices = <<>>)
          /\ Len(index) = Len(rri.values))
         => /\ ~an_ret.raised
            /\ Range(an_ret.value) \subseteq Range(index)

InjectedDropRise(n, p) ==
    [i \in 1..n |-> IF i = p + 1 THEN Num(5) ELSE IF i = p + 2 THEN Num(13) ELSE Num(10)]

\* C15: with the default thresholds, a series with one injected sharp drop followed
\* by a rise returns exactly one position, the position of the drop, and neither
\* the first nor the last position.
C15_InjectedDropFlagged ==
    LET n == Len(rri.values)
        index == IF rri.kind = "list" /\ indices # <<>> THEN indices[1] ELSE rri.index
        drop == IF "drop_threshold" \in DOMAIN kwargs THEN kwargs["drop_threshold"] ELSE -15
        rise == IF "rise_threshold" \in DOMAIN kwargs THEN kwargs["rise_threshold"] ELSE 25
    IN \A p \in 1..(n - 2) :
         (an_pc = "done" /\ drop = -15 /\ rise = 25 /\ Len(index) = n
            /\ rri.values = InjectedDropRise(n, p))
           => /\ an_ret = Returned(<<index[p + 1]>>)
              /\ index[1] \notin Range(an_ret.value)
              /\ index[n] \notin Range(an_ret.value)

\* ------------------------------------------------------------------ claims, smoothing kernels
\* C13: for every signal of n >= 1 samples and every window size L, the average
\* returned by either kernel has n samples, also when n is below the odd window length.
C13_OutputLengthIsInputLength ==
    (sm_pc = "done" /\ Len(sm_y) >= 1)
      => /\ ~sm_ret.raised
         /\ Len(sm_ret.value.num) = Len(sm_y)

\* ------------------------------------------------------------------ claims, frequency_filtering_fft
\* a time axis was given and its length is not the length of the signal
LengthMismatch == ff_t # <<>> /\ Len(ff_t[1]) # Len(ff_y)

\* C16: a time axis of another length than the signal fails with the input-shape
\* error, an unrecognised reconstruction mode fails with the configuration error,
\* neither returns a filtered signal, and the length is checked before the mode.
C16_ShapeThenModeError ==
    ff_pc = "done" =>
      /\ LengthMismatch => ff_ret = Raise("input shape")
      /\ (~LengthMismatch /\ reconstruction_mode \notin {"all", "positive"})
            => ff_ret = Raise("configuration")

\* C17: with lower absent and upper infinite the keep-mask is true for every bin
\* and the filtered signal is the input signal, for every signal of N >= 1 samples
\* and every time axis of N samples.
C17_UnboundedBandIsIdentity ==
    (ff_pc = "done" /\ Len(ff_y) >= 1 /\ ~LengthMismatch
       /\ reconstruction_mode \in {"all", "positive"}
       /\ ff_lower = <<>> /\ ff_upper = <<FInf(1)>>)
      => /\ ~ff_ret.raised
         /\ \A k \in 1..Len(ff_y) : ff_ret.value.filter_mask[k]
         /\ ff_ret.value.y_filtered = ff_y

\* ------------------------------------------------------------------ claims, frequency_filtering_butterworth
\* C20: the designed filter is built from upper alone for lowpass, from lower alone
\* for highpass and from the pair [lower, upper] for bandpass and bandstop; any
\* other mode fails with the configuration error, with no filter designed and no
\* signal filtered.
C20_DesignUsesModeEdges ==
    /\ bw_filter # <<>> =>
         /\ bw_filter[1].btype = btype
         /\ btype = "lowpass" => bw_filter[1].Wn = <<bw_upper>>
         /\ btype = "highpass" => bw_filter[1].Wn = <<bw_lower>>
         /\ btype \in {"bandpass", "bandstop"} => bw_filter[1].Wn = <<bw_lower, bw_upper>>
    /\ (btype \notin {"bandpass", "bandstop", "lowpass", "highpass"} /\ bw_pc # "design")
         => /\ bw_pc = "raised"
            /\ bw_ret = Raise("configuration")
            /\ bw_filter = <<>>

\* a highpass call given both edges returned a signal filtered with the lower edge
C20_Witness ==
    /\ bw_pc = "done"
    /\ btype = "highpass"
    /\ bw_upper # <<>>
    /\ ~bw_ret.raised
    /\ bw_ret.value.filter.Wn = <<bw_lower>>

\* ------------------------------------------------------------------ claims, get_pulse_metrics (indices)
\* C19: a raw array without indices fails with the validation error and no table
\* is returned; a raw array with its indices succeeds, and the table is indexed by
\* exactly those labels.
C19_ArrayNeedsIndices ==
    (pm_pc = "done" /\ timestamps.kind = "ndarray") =>
      /\ pm_indices = <<>> => pm_ret = Raised
      /\ (pm_indices # <<>> /\ Len(pm_indices[1]) = Len(timestamps.values))
            => (~pm_ret.raised /\ pm_ret.value.index = pm_indices[1])

\* a raw array given with labels other than 0..n-1 returned a table indexed by them
C19_Witness ==
    /\ pm_pc = "done"
    /\ timestamps.kind = "ndarray"
    /\ Len(timestamps.values) >= 2
    /\ pm_indices = << RowIndex(Len(timestamps.values)) >>
    /\ ~pm_ret.raised
    /\ pm_ret.value.index = RowIndex(Len(timestamps.values))

C21_MissingEdgeIsConfigurationError ==
    /\ (ff_pc = "done" /\ Len(ff_y) >= 1 /\ ~LengthMismatch
          /\ reconstruction_mode \in {"all", "positive"}
          /\ ff_lower = <<>> /\ ff_upper = <<>>)
         => ff_ret = Raise("configuration")
    /\ (bw_pc \notin {"off", "design"} /\ btype \in {"bandpass", "bandstop"}
          /\ (bw_lower = <<>> \/ bw_upper = <<>>))
         => (bw_ret = Raise("configuration") /\ bw_filter = <<>>)

\* ------------------------------------------------------------------ claims, the store during get_heartbeats
\* C22: no step of a get_heartbeats call, from its entry to its return, changes
\* plot_data, label_list or selected_label, whatever the store holds.
C22_StoreNotMutated ==
    [][(hb_pc # "idle" \/ hb_pc' # "idle")
         => (plot_data' = plot_data /\ label_list' = label_list
               /\ selected_label' = selected_label)]_vars

\* a call that split the heartbeats of a labelled record into two segments
C22_Witness ==
    /\ hb_pc = "done"
    /\ Len(heartbeat_segments) >= 2
    /\ selected_label # ""
    /\ \E l \in DOMAIN plot_data[1].cols : plot_data[1].cols[l] # {}

\* ------------------------------------------------------------------ claims, variability
\* the second difference of the timestamps at the 0-based position j >= 2, in ms
SecondDifference(t, j) == 1000 * (t[j + 1] - 2 * t[j] + t[j - 1])

RECURSIVE SumSquaredDifferences(_, _, _)
\* the sum of the squared second differences at the positions lo..hi
SumSquaredDifferences(t, lo, hi) ==
    IF lo > hi THEN 0
    ELSE SecondDifference(t, lo) * SecondDifference(t, lo) + SumSquaredDifferences(t, lo + 1, hi)

\* the variability before back-fill as claimed: undefined at the positions 0, 1, 2,
\* from position 3 on the root mean square of the second differences that exist
\* at the positions i-3..i
ClaimedVariability(t) ==
    [k \in 1..Len(t) |->
       LET i == k - 1
           lo == Max(i - 3, 2)
       IN IF i < 3 THEN NaN
          ELSE Num(<<SumSquaredDifferences(t, lo, i), i - lo + 1>>)]

\* C23: for every timestamp sequence the returned variability is the back-fill of
\* the series that is undefined at the positions 0, 1 and 2 and holds, at every
\* position i >= 3, the root of the mean of the squared second differences of the
\* timestamps, in milliseconds, over the positions i-3..i.
C23_Variability ==
    PMReturned => pm_ret.value.variability = bfill(ClaimedVariability(timestamps.values))

\* ------------------------------------------------------------------ claims, peak_correction (record start)
\* C24: the pass of the loop that handles an integral seed s of the record with
\* 0 <= s < window - 1 appends exactly one entry, the index of the (first) maximum
\* of the raw signal within [0, window - 1), whatever the length of the record.
C24_SeedBelowWindowSearchesStart ==
    [][(pk_pc = "loop" /\ num < Len(seeds) /\ num' = num + 1
          /\ Len(seeds[num + 1]) = 1
          /\ 0 <= seeds[num + 1][1] /\ seeds[num + 1][1] < window - 1
          /\ seeds[num + 1][1] < Len(raw_signal))
        => /\ pk_pc' = "loop"
           /\ new_peaks' = Append(new_peaks,
                                  IdxMax(raw_signal, {p \in 1..Len(raw_signal) : p - 1 < window - 1}))
      ]_vars

\* ------------------------------------------------------------------ claims, keep-mask
\* the time axis of the call and its span
FFTimeAxis == IF ff_t = <<>> THEN [i \in 1..Len(ff_y) |-> i - 1] ELSE ff_t[1]
FFSpan == FFTimeAxis[Len(ff_y)] - FFTimeAxis[1]

\* the signed frequency of bin k (0-based) is SignedBin(k) * (N - 1) / (N * span):
\* the bins from N/2 on are the negative frequencies
SignedBin(k) == IF 2 * k < Len(ff_y) THEN k ELSE k - Len(ff_y)

\* the frequency of bin k that the band is tested against, as numerator over
\* the positive denominator Len(ff_y) * FFSpan
TestedNumerator(k) ==
    LET b == IF reconstruction_mode = "all" THEN Abs(SignedBin(k)) ELSE SignedBin(k)
    IN b * (Len(ff_y) - 1)

\* f_k < edge and f_k > edge for an edge n / d or +inf, both strict
BelowEdge(k, edge) == edge.k = "inf" \/ TestedNumerator(k) * edge.d < edge.n * Len(ff_y) * FFSpan
AboveEdge(k, edge) == edge.k # "inf" /\ TestedNumerator(k) * edge.d > edge.n * Len(ff_y) * FFSpan

\* C25: on a finite frequency axis and a band with a bound present, bin k is kept
\* if and only if (lower is absent or f_k > lower) and (upper is absent or
\* f_k < upper), both strict, f_k the absolute frequency in mode 'all' and the
\* signed one in mode 'positive'; in mode 'all' bin k is kept iff bin N-k is, and
\* in mode 'positive' with lower >= 0 the zero bin and the negative bins are removed.
C25_KeepMask ==
    (ff_pc = "done" /\ ~ff_ret.raised /\ Len(ff_y) >= 2 /\ FFSpan > 0) =>
      LET len == Len(ff_y)
          filter_mask == ff_ret.value.filter_mask
      IN /\ \A k \in 0..(len - 1) :
              filter_mask[k + 1] <=> /\ ff_lower = <<>> \/ AboveEdge(k, ff_lower[1])
                                     /\ ff_upper = <<>> \/ BelowEdge(k, ff_upper[1])
         /\ reconstruction_mode = "all" =>
              \A k \in 1..(len - 1) : filter_mask[k + 1] <=> filter_mask[len - k + 1]
         /\ (reconstruction_mode = "positive" /\ ff_lower # <<>> /\ ff_lower[1].n >= 0) =>
              \A k \in 0..(len - 1) : SignedBin(k) <= 0 => ~filter_mask[k + 1]

\* a bin whose absolute frequency is exactly the upper edge was removed
C25_Witness ==
    /\ ff_pc = "done"
    /\ reconstruction_mode = "all"
    /\ ff_lower = <<>>
    /\ ff_upper = <<FRat(1, 4)>>
    /\ ff_t = << <<0, 2>> >>
    /\ Len(ff_y) = 2
    /\ ~ff_ret.raised
    /\ ff_ret.value.filter_mask = <<TRUE, FALSE>>

\* ------------------------------------------------------------------ claims, peak_correction (PeakSet)
\* C26: for every strictly increasing list of integral seeds inside the record the
\* returned list is strictly increasing and every entry lies in [0, N).
C26_RefinedStrictlyIncreasing ==
    (pk_pc = "done"
       /\ (\A k \in 1..Len(seeds) :
              Len(seeds[k]) = 1 /\ 0 <= seeds[k][1] /\ seeds[k][1] < Len(raw_signal))
       /\ (\A j \in 1..(Len(seeds) - 1) : seeds[j][1] < seeds[j + 1][1]))
      => /\ (\A k \in 1..(Len(new_peaks) - 1) : new_peaks[k] < new_peaks[k + 1])
         /\ (\A j \in 1..Len(new_peaks) : 0 <= new_peaks[j] /\ new_peaks[j] < Len(raw_signal))

\* ------------------------------------------------------------------ claims, GraphHandler
Selections == {"left_select", "right_select", "middle_select"}

OnlyCellChanged(before, after, name, index) ==
    /\ after.nrows = before.nrows
    /\ DOMAIN after.cols = DOMAIN before.cols
    /\ (index \in after.cols[name]) # (index \in before.cols[name])
    /\ \A l \in DOMAIN before.cols : \A r \in Rows(before) :
          (l # name \/ r # index) => ((r \in after.cols[l]) <=> (r \in before.cols[l]))

C29_PeaksAreThresholdedMaxima ==
    (gp_pc = "done" /\ ~gp_ret.raised) =>
        LET v == gp_ret.value
            len == Len(gp_y)
        IN /\ \A k \in 1..Len(v.peaks) :
                 LET p == v.peaks[k]
                 IN /\ p \in 0..(len - 1)
                    /\ 0 < p /\ p < len - 1
                    /\ ~FLt(gp_y[p + 1], gp_y[p]) /\ ~IsNaN(gp_y[p])
                    /\ ~FLt(gp_y[p + 1], gp_y[p + 2]) /\ ~IsNaN(gp_y[p + 2])
                    /\ AtLeast(gp_y[p + 1], quantile(gp_y, gp_quant))
           /\ \A k \in 1..(Len(v.peaks) - 1) : v.peaks[k] < v.peaks[k + 1]
           /\ gp_output = "locs" => DOMAIN v = {"kind", "peaks"} /\ v.kind = "locs"
           /\ gp_output # "locs" =>
                 /\ v.kind = "tuple"
                 /\ DOMAIN v.properties = {"peak_heights"}
                 /\ Len(v.properties.peak_heights) = Len(v.peaks)
                 /\ \A k \in 1..Len(v.peaks) :
                       v.properties.peak_heights[k] = gp_y[v.peaks[k] + 1]

\* the default quantile kept one local maximum and left a lower one out
C29_Witness ==
    /\ gp_pc = "done"
    /\ ~gp_ret.raised
    /\ gp_quant = <<4, 5>>
    /\ gp_output = "locs"
    /\ Len(gp_ret.value.peaks) >= 1
    /\ Len(local_maxima(gp_y, 1)) > Len(gp_ret.value.peaks)

\* ------------------------------------------------------------------ C30
\* the position in the concatenated table of beat i of segment k
TableRow(segments, k, i) == Len(Concat(SubSeq(segments, 1, k - 1))) + i

\* C30: in the table display_rri_and_hr_graph builds, the row of beat i >= 2 of a
\* segment holds the time from beat i - 1 to beat i of that segment; the row of a
\* segment's first beat holds the interval of the segment's second beat (it is
\* undefined when the segment has one beat only) and never the time since the
\* last beat of the segment before; the table has one row per beat of each segment.
C30_IntervalsWithinSegments ==
    (iv_pc = "done" /\ pulse_metrics # <<>>) =>
        LET table == pulse_metrics[1]
            segments == heartbeat_segments
        IN /\ Len(table) = Len(Concat(segments))
           /\ \A k \in 1..Len(segments) : \A i \in 1..Len(segments[k]) :
                 LET row == table[TableRow(segments, k, i)]
                     seg == segments[k]
                 IN /\ row.index = seg[i]
                    /\ i >= 2 => row.interval = Num(SensorTimer(seg[i]) - SensorTimer(seg[i - 1]))
                    /\ (i = 1 /\ Len(seg) >= 2) =>
                          row.interval = Num(SensorTimer(seg[2]) - SensorTimer(seg[1]))
                    /\ (i = 1 /\ Len(seg) = 1) => IsNaN(row.interval)
                    /\ (i = 1 /\ k >= 2 /\ segments[k - 1] # <<>>) =>
                          row.interval # Num(SensorTimer(seg[1]) - SensorTimer(Last(segments[k - 1])))

\* a table of two segments, the second of them with two beats
C30_Witness ==
    /\ iv_pc = "done"
    /\ pulse_metrics # <<>>
    /\ Len(heartbeat_segments) = 2
    /\ Len(heartbeat_segments[2]) >= 2

====
